---- MODULE Spec2Model ----
(***************************************************************************)
(* Model of the Nylas API client (nylas/client/client.py): the response    *)
(* validator, the session/credential selector, the URL builder, the eight  *)
(* mediator operations, token rotation, and the lazy paginated collection  *)
(* that drains a resource collection through the list operation.           *)
(***************************************************************************)
EXTENDS Integers, Sequences, FiniteSets, TLC

VARIABLES
    app_id,           \* APIClient.app_id
    app_secret,       \* APIClient.app_secret
    access_token,     \* APIClient._access_token
    auth_token,       \* APIClient.auth_token
    session_headers,  \* APIClient.session.headers        (header name -> value)
    admin_headers,    \* APIClient.admin_session.headers  (header name -> value)
    pc,               \* position of the (single) caller: "idle" or "sent"
    req,              \* the request dispatched by the operation in progress / last run
    attempts,         \* number of transport calls made by that operation
    res,              \* the outcome of the last finished operation
    page,             \* state of one traversal of a RestfulModelCollection
    thr               \* per-thread state when one client is shared by threads

vars == <<app_id, app_secret, access_token, auth_token, session_headers,
          admin_headers, pc, req, attempts, res, page, thr>>

clientVars == <<app_id, app_secret, access_token, auth_token, session_headers,
                admin_headers>>

-----------------------------------------------------------------------------
(* Values *)

None == "None"

API_SERVER == "https://api.nylas.com"

VersionHeader == "Nylas Python SDK"

EmptyMap == [k \in {} |-> ""]

\* Python truthiness of the values the model passes around (None and '' are falsy).
Truthy(v) == v # None /\ v # ""

Tokens == {"t1", "t2"}

TokenValues == Tokens \cup {None, ""}

AppSecrets == {None, "K1"}

\* Resource descriptors (collection_name, api_root) of the resource classes.
Event == [collection_name |-> "events", api_root |-> "n"]

Account == [collection_name |-> "accounts", api_root |-> "a"]

File == [collection_name |-> "files", api_root |-> "n"]

Send == [collection_name |-> "send", api_root |-> "n"]

Classes == {Event, Account, File, Send}

Ids == {"id1"}

Extras == {None, "x"}

MethodNames == {"upgrade"}

-----------------------------------------------------------------------------
(* Response bodies and json.loads *)

\* A response body: its text; for a JSON array the elements are kept in items.
Body(text) == [text |-> text, items |-> <<>>]

ArrayBody(items) == [text |-> "[...]", items |-> items]

\* The elements of a JSON array: objects, and null.
Obj(id) == [id |-> id, null |-> FALSE]

NullElement == [id |-> 0, null |-> TRUE]

Bodies ==
    { Body("<html>"), Body("null"), Body("7"), Body("\"oops\""),
      Body("\"message\""), Body("{}"), Body("{\"message\": \"m\"}"),
      Body("{\"server_error\": \"e\"}"), ArrayBody(<<Obj(1)>>), ArrayBody(<<>>) }

\* json.loads(text): ok = FALSE is ValueError; otherwise the JSON type of the
\* value and the set has of the keys k in ['message', 'server_error'] for
\* which the Python expression (k in value) is True.
json_loads(body) ==
    CASE body.text = "null"      -> [ok |-> TRUE, type |-> "null", has |-> {}]
      [] body.text = "7"         -> [ok |-> TRUE, type |-> "number", has |-> {}]
      [] body.text = "\"oops\""  -> [ok |-> TRUE, type |-> "string", has |-> {}]
      [] body.text = "\"message\"" ->
                              [ok |-> TRUE, type |-> "string", has |-> {"message"}]
      [] body.text = "{}"        -> [ok |-> TRUE, type |-> "object", has |-> {}]
      [] body.text = "{\"message\": \"m\"}" ->
                              [ok |-> TRUE, type |-> "object", has |-> {"message"}]
      [] body.text = "{\"server_error\": \"e\"}" ->
                         [ok |-> TRUE, type |-> "object", has |-> {"server_error"}]
      [] body.text = "[...]"     -> [ok |-> TRUE, type |-> "array", has |-> {}]
      [] OTHER                   -> [ok |-> FALSE, type |-> "", has |-> {}]

-----------------------------------------------------------------------------
(* Outcomes *)

NoMessage == "<default>"

Returned == [outcome |-> "returned", kind |-> "", message |-> "", url |-> <<>>]

Raise(kind, message, url) ==
    [outcome |-> "raised", kind |-> kind, message |-> message, url |-> url]

-----------------------------------------------------------------------------
(* _validate *)

MappedStatuses == {400, 401, 402, 403, 404, 405, 409, 429, 500, 503, 504}

status_code_to_exc ==
    [s \in MappedStatuses |->
        CASE s = 400 -> "InvalidRequestError"
          [] s = 401 -> "NotAuthorizedError"
          [] s = 402 -> "MessageRejectedError"
          [] s = 403 -> "NotAuthorizedError"
          [] s = 404 -> "NotFoundError"
          [] s = 405 -> "MethodNotSupportedError"
          [] s = 409 -> "ConflictError"
          [] s = 429 -> "SendingQuotaExceededError"
          [] s = 500 -> "ServerError"
          [] s = 503 -> "ServiceUnavailableError"
          [] s = 504 -> "ServerTimeoutError"]

\* The message keyword the mapped error is raised with, in the try block of
\* _validate: json.loads may raise ValueError; (key in response) raises
\* TypeError on null and numbers; response[key] raises TypeError when the
\* value holding the key is not an object. Both are caught: "Malformed".
validate_message(body) ==
    LET response == json_loads(body)
    IN  IF ~response.ok THEN "Malformed"
        ELSE IF response.type \in {"null", "number"} THEN "Malformed"
        ELSE IF response.has # {} /\ response.type # "object" THEN "Malformed"
        ELSE IF "message" \in response.has THEN "<server message>"
        ELSE NoMessage

\* Faulty variant of _validate: a body that is not JSON loses the mapped kind.
validate_mut_kind(url, status_code, body) ==
    IF status_code = 200 THEN Returned
    ELSE IF status_code \in DOMAIN status_code_to_exc
    THEN IF json_loads(body).ok
         THEN Raise(status_code_to_exc[status_code], validate_message(body), url)
         ELSE Raise("APIClientError", "Malformed", url)
    ELSE Raise("APIClientError", "Unknown status code.", url)

\* _validate(response): returns on 200, raises the mapped class on a status
\* of the table, APIClientError on any other status.
_validate(url, status_code, body) ==
    IF status_code = 200 THEN Returned
    ELSE IF status_code \in DOMAIN status_code_to_exc
    THEN Raise(status_code_to_exc[status_code], validate_message(body), url)
    ELSE Raise("APIClientError", "Unknown status code.", url)

-----------------------------------------------------------------------------
(* Headers and sessions *)

Put(h, k, v) == [x \in DOMAIN h \cup {k} |-> IF x = k THEN v ELSE h[x]]

Del(h, k) == [x \in DOMAIN h \ {k} |-> h[x]]

Auth(h) == IF "Authorization" \in DOMAIN h THEN h["Authorization"] ELSE None

\* b64encode((app_secret + ':').encode('utf8')).decode('utf8')
b64encode(s) ==
    CASE s = "K1:" -> "SzE6"
      [] s = "K2:" -> "SzI6"
      [] OTHER     -> "b64(" \o s \o ")"

Basic(secret) == "Basic " \o b64encode(secret \o ":")

Bearer(token) == "Bearer " \o token

WrapperHeaders ==
    [k \in {"X-Nylas-API-Wrapper", "User-Agent"} |->
        IF k = "User-Agent" THEN VersionHeader ELSE "python"]

\* The headers of a fresh requests.Session() (none of them is Authorization).
RequestsDefaultHeaders == [k \in {"User-Agent"} |-> "python-requests"]

\* requests merges the headers given to one call over the session's headers.
MergeHeaders(call, session) ==
    [k \in DOMAIN call \cup DOMAIN session |->
        IF k \in DOMAIN call THEN call[k] ELSE session[k]]

\* headers.update(self.session.headers)
Update(headers, other) == MergeHeaders(other, headers)

\* Faulty variant of the setter: a falsy value leaves the header in place.
setter_mut_keep(value, headers) ==
    IF Truthy(value) THEN Put(headers, "Authorization", Bearer(value))
    ELSE headers

\* The access_token setter's effect on session.headers.
access_token_setter(value, headers) ==
    IF Truthy(value) THEN Put(headers, "Authorization", Bearer(value))
    ELSE IF "Authorization" \in DOMAIN headers THEN Del(headers, "Authorization")
    ELSE headers

\* admin_session.headers after __init__.
admin_session_init(secret) ==
    IF secret # None
    THEN Put(WrapperHeaders, "Authorization", Basic(secret))
    ELSE RequestsDefaultHeaders

_get_http_session(api_root) ==
    IF api_root = "a" THEN admin_headers ELSE session_headers

-----------------------------------------------------------------------------
(* URLs: a URL is the sequence of its '/'-separated parts after the scheme; *)
(* a trailing "" part is a trailing slash.                                  *)

Postfix(extra) == IF Truthy(extra) THEN <<extra>> ELSE <<>>

\* A value given as a filter or keyword argument: a string or an integer.
Str(s) == [isint |-> FALSE, int |-> 0, str |-> s]

Num(n) == [isint |-> TRUE, int |-> n, str |-> ""]

\* str(value), as urlencode and format apply it: an integer in decimal.
Quote(v) == IF v.isint THEN ToString(v.int) ELSE v.str

urlencode(args) == [k \in DOMAIN args |-> Quote(args[k])]

\* url_concat(url, args): the query string appended to url.
url_concat(args) == urlencode(args)

\* A dispatched request, with the request context (resource class, id and
\* sub-action) it was built from.
Request(op, cls, id, sub, method, url, query, headers) ==
    [op |-> op, cls |-> cls, id |-> id, sub |-> sub, method |-> method,
     url |-> url, query |-> query, headers |-> headers]

NoRequest == Request("none", Event, None, None, "", <<>>, EmptyMap, EmptyMap)

\* _get_resources(self, cls, extra=None, **filters) called with the keyword
\* arguments kwargs: a keyword named extra binds the parameter extra, the
\* others are collected in filters.
get_resources_extra(kwargs) ==
    IF "extra" \in DOMAIN kwargs THEN Quote(kwargs["extra"]) ELSE None

get_resources_filters(kwargs) == [k \in DOMAIN kwargs \ {"extra"} |-> kwargs[k]]

\* Faulty variant of the list request: the filters are not appended to the URL.
get_resources_mut_nofilters(cls, kwargs) ==
    LET extra == get_resources_extra(kwargs)
        url == IF cls.api_root # "a"
               THEN <<API_SERVER, cls.collection_name>> \o Postfix(extra)
               ELSE <<API_SERVER, "a", app_id, cls.collection_name>> \o Postfix(extra)
    IN  Request("list", cls, None, extra, "GET", url, EmptyMap,
                MergeHeaders(EmptyMap, _get_http_session(cls.api_root)))

\* The request _get_resources sends.
get_resources_request(cls, kwargs) ==
    LET extra == get_resources_extra(kwargs)
        filters == get_resources_filters(kwargs)
        url == IF cls.api_root # "a"
               THEN <<API_SERVER, cls.collection_name>> \o Postfix(extra)
               ELSE <<API_SERVER, "a", app_id, cls.collection_name>> \o Postfix(extra)
    IN  Request("list", cls, None, extra, "GET", url, url_concat(filters),
                MergeHeaders(EmptyMap, _get_http_session(cls.api_root)))

\* The list _get_resources returns from a JSON array: the null elements dropped.
RECURSIVE get_resources_results(_)
get_resources_results(results) ==
    IF results = <<>> THEN <<>>
    ELSE IF Head(results) # NullElement
         THEN <<Head(results)>> \o get_resources_results(Tail(results))
         ELSE get_resources_results(Tail(results))

get_resource_raw_request(op, cls, id, extra, filters) ==
    LET headers == Update(EmptyMap, session_headers)
        url == IF cls.api_root # "a"
               THEN <<API_SERVER, cls.collection_name, id>> \o Postfix(extra)
               ELSE <<API_SERVER, "a", app_id, cls.collection_name, id>>
                        \o Postfix(extra)
    IN  Request(op, cls, id, extra, "GET", url, url_concat(filters),
                MergeHeaders(headers, _get_http_session(cls.api_root)))

\* _create_resource and _create_resources build the same request.
create_resource_request(op, cls, kwargs) ==
    LET url == <<API_SERVER, cls.collection_name, "">>
        session == _get_http_session(cls.api_root)
        headers == IF cls = File THEN EmptyMap
                   ELSE Update([k \in {"Content-Type"} |-> "application/json"],
                               session_headers)
    IN  Request(op, cls, None, None, "POST", url, urlencode(kwargs),
                MergeHeaders(headers, session))

delete_resource_request(cls, id, kwargs) ==
    Request("delete", cls, id, None, "DELETE", <<API_SERVER, cls.collection_name, id>>,
            urlencode(kwargs), MergeHeaders(EmptyMap, _get_http_session(cls.api_root)))

update_resource_request(cls, id, kwargs) ==
    Request("update", cls, id, None, "PUT", <<API_SERVER, cls.collection_name, id>>,
            urlencode(kwargs), MergeHeaders(EmptyMap, _get_http_session(cls.api_root)))

call_resource_method_request(cls, id, method_name) ==
    LET url == IF cls.api_root # "a"
               THEN <<API_SERVER, cls.collection_name, id, method_name>>
               ELSE <<API_SERVER, "a", app_id, cls.collection_name, id, method_name>>
    IN  Request("invokeAction", cls, id, method_name, "POST", url, EmptyMap,
                MergeHeaders(EmptyMap, _get_http_session(cls.api_root)))

revoke_token_request ==
    Request("revoke", Event, None, None, "POST", <<API_SERVER, "oauth", "revoke">>, EmptyMap,
            MergeHeaders(EmptyMap, session_headers))

-----------------------------------------------------------------------------
(* Transport, deserialization and the outcome of an operation *)

Statuses == {200} \cup MappedStatuses \cup {201, 302, 502}

\* What the transport gives back: no response at all (failed), or a response.
TransportFailure == [failed |-> TRUE, status |-> 0, body |-> Body("")]

Response(status, body) == [failed |-> FALSE, status |-> status, body |-> body]

Transports ==
    {TransportFailure} \cup {Response(s, b) : s \in Statuses, b \in Bodies}

\* What each operation does with a validated (status 200) response:
\* response.json() raises ValueError on a body that is not JSON, building the
\* resource(s) raises TypeError when the value has not the expected shape, and
\* result[0] raises IndexError on an empty array.
deserialize(op, cls, body) ==
    LET result == json_loads(body)
        isEmptyObject == result.type = "object" /\ result.has = {}
    IN  IF op \in {"delete", "getRaw", "revoke"} THEN Returned
        ELSE IF ~result.ok THEN Raise("ValueError", "", <<>>)
        ELSE IF op \in {"list", "createMany"}
             THEN IF result.type = "array" \/ isEmptyObject
                  THEN Returned ELSE Raise("TypeError", "", <<>>)
        ELSE IF op = "getOne"
             THEN IF result.type = "array" /\ body.items = <<>>
                  THEN Raise("IndexError", "", <<>>)
                  ELSE IF result.type \in {"array", "object"}
                       THEN Returned ELSE Raise("TypeError", "", <<>>)
        ELSE IF op = "create" /\ cls.collection_name = "send" THEN Returned
        ELSE IF result.type = "object" THEN Returned
        ELSE Raise("TypeError", "", <<>>)

\* The body of a decorated function once the transport has answered.
operation_result(r, t) ==
    IF t.failed THEN Raise("requests.exceptions.ConnectionError", "", <<>>)
    ELSE LET v == _validate(r.url, t.status, t.body)
         IN  IF v.outcome = "raised" THEN v ELSE deserialize(r.op, r.cls, t.body)

\* Faulty variant of the decorator: the transport's exception is not caught.
nylas_excepted_mut_uncaught(result) == result

\* nylas_excepted: requests' ConnectionError becomes ConnectionError(url=server).
nylas_excepted(result) ==
    IF result.outcome = "raised" /\ result.kind = "requests.exceptions.ConnectionError"
    THEN Raise("ConnectionError", "", <<API_SERVER>>)
    ELSE result

Credentials(token, auth, headers) ==
    [access_token |-> token, auth_token |-> auth, session_headers |-> headers]

\* Faulty variant of revoke_token: the token is cleared before validation.
revoke_token_mut_always(out, cur) ==
    Credentials(None, None, access_token_setter(None, cur.session_headers))

\* The credentials revoke_token leaves behind, given what _validate did.
revoke_token_credentials(out, cur) ==
    IF out.outcome = "returned"
    THEN Credentials(None, None, access_token_setter(None, cur.session_headers))
    ELSE cur

Result(op, t, validation, result, token, headers) ==
    [op |-> op, transport |-> t, validation |-> validation, result |-> result,
     pre_token |-> token, pre_headers |-> headers]

NoResult == Result("none", TransportFailure, Returned, Returned, None, EmptyMap)

PageIdle == [pc |-> "off"]

ThrIdle == [pc |-> "off"]

-----------------------------------------------------------------------------
(* The client used by one caller: Spec *)

Init ==
    /\ app_id = "app1"
    /\ app_secret \in AppSecrets
    /\ access_token \in TokenValues
    /\ auth_token = None
    /\ session_headers = access_token_setter(access_token, WrapperHeaders)
    /\ admin_headers = admin_session_init(app_secret)
    /\ pc = "idle"
    /\ req = NoRequest
    /\ attempts = 0
    /\ res = NoResult
    /\ page = PageIdle
    /\ thr = ThrIdle

Dispatch(r) ==
    /\ pc = "idle"
    /\ pc' = "sent"
    /\ req' = r
    /\ attempts' = 1
    /\ res' = NoResult
    /\ UNCHANGED <<clientVars, page, thr>>

\* client.access_token = value
access_token_set ==
    /\ pc = "idle"
    /\ \E value \in TokenValues :
         /\ access_token' = value
         /\ session_headers' = access_token_setter(value, session_headers)
    /\ req' = NoRequest
    /\ attempts' = 0
    /\ res' = Result("setToken", TransportFailure, Returned, Returned,
                     access_token, session_headers)
    /\ UNCHANGED <<app_id, app_secret, auth_token, admin_headers, pc, page, thr>>

\* token_for_code: the exchange answers with a JSON object holding access_token
\* (given), or with one that does not hold it (KeyError), or the transport
\* fails; the exceptions are raised as they are and the token is not assigned.
token_for_code ==
    /\ pc = "idle"
    /\ \E answer \in {"token", "KeyError", "requests.exceptions.ConnectionError"},
          value \in TokenValues :
         IF answer = "token"
         THEN /\ access_token' = value
              /\ session_headers' = access_token_setter(value, session_headers)
              /\ res' = Result("tokenForCode", TransportFailure, Returned, Returned,
                               access_token, session_headers)
         ELSE /\ UNCHANGED <<access_token, session_headers>>
              /\ res' = Result("tokenForCode", TransportFailure, Returned,
                               Raise(answer, "", <<>>), access_token, session_headers)
    /\ req' = NoRequest
    /\ attempts' = 0
    /\ UNCHANGED <<app_id, app_secret, auth_token, admin_headers, pc, page, thr>>

revoke_token == Dispatch(revoke_token_request)

_get_resources ==
    \E cls \in Classes, extra \in Extras :
        Dispatch(get_resources_request(cls,
                     IF extra = None THEN EmptyMap ELSE [k \in {"extra"} |-> Str(extra)]))

_get_resource ==
    \E cls \in Classes, id \in Ids :
        Dispatch(get_resource_raw_request("getOne", cls, id, None, EmptyMap))

_get_resource_data ==
    \E cls \in Classes, id \in Ids, extra \in Extras :
        Dispatch(get_resource_raw_request("getRaw", cls, id, extra, EmptyMap))

_create_resource ==
    \E cls \in Classes : Dispatch(create_resource_request("create", cls, EmptyMap))

_create_resources ==
    \E cls \in Classes : Dispatch(create_resource_request("createMany", cls, EmptyMap))

_delete_resource ==
    \E cls \in Classes, id \in Ids : Dispatch(delete_resource_request(cls, id, EmptyMap))

_update_resource ==
    \E cls \in Classes, id \in Ids : Dispatch(update_resource_request(cls, id, EmptyMap))

_call_resource_method ==
    \E cls \in Classes, id \in Ids, method_name \in MethodNames :
        Dispatch(call_resource_method_request(cls, id, method_name))

\* The transport answers (or fails) and the operation in progress finishes.
Respond ==
    /\ pc = "sent"
    /\ \E t \in Transports :
         LET validation == IF t.failed THEN operation_result(req, t)
                           ELSE _validate(req.url, t.status, t.body)
             result == nylas_excepted(operation_result(req, t))
             cur == Credentials(access_token, auth_token, session_headers)
             new == IF req.op = "revoke"
                    THEN revoke_token_credentials(result, cur) ELSE cur
         IN  /\ res' = Result(req.op, t, validation, result,
                              access_token, session_headers)
             /\ access_token' = new.access_token
             /\ auth_token' = new.auth_token
             /\ session_headers' = new.session_headers
    /\ pc' = "idle"
    /\ UNCHANGED <<app_id, app_secret, admin_headers, req, attempts, page, thr>>

Next ==
    \/ access_token_set
    \/ token_for_code
    \/ revoke_token
    \/ _get_resources
    \/ _get_resource
    \/ _get_resource_data
    \/ _create_resource
    \/ _create_resources
    \/ _delete_resource
    \/ _update_resource
    \/ _call_resource_method
    \/ Respond

Spec == Init /\ [][Next]_vars

-----------------------------------------------------------------------------
(* Claims about the client used by one caller (checked under Spec) *)

MediatorOps ==
    {"list", "getOne", "getRaw", "create", "createMany", "update", "delete",
     "invokeAction"}

\* A mediator operation has finished / has got a response.
Finished == pc = "idle" /\ res.op \in MediatorOps

Answered == Finished /\ ~res.transport.failed

\* The error kind the status table of the specification gives each status.
ExpectedKind(status) ==
    CASE status = 400 -> "InvalidRequestError"
      [] status \in {401, 403} -> "NotAuthorizedError"
      [] status = 402 -> "MessageRejectedError"
      [] status = 404 -> "NotFoundError"
      [] status = 405 -> "MethodNotSupportedError"
      [] status = 409 -> "ConflictError"
      [] status = 429 -> "SendingQuotaExceededError"
      [] status = 500 -> "ServerError"
      [] status = 503 -> "ServiceUnavailableError"
      [] status = 504 -> "ServerTimeoutError"
      [] OTHER -> "APIClientError"

ExpectedOutcome(o, status) ==
    IF status = 200 THEN o.outcome = "returned"
    ELSE o.outcome = "raised" /\ o.kind = ExpectedKind(status)

TableStatuses == {400, 401, 402, 403, 404, 405, 409, 429, 500, 503, 504}

\* Bodies that are JSON objects, and bodies that make the lookup of the
\* message keys fail (not JSON; null; a number; a string holding a key name).
ObjectTexts == {"{}", "{\"message\": \"m\"}", "{\"server_error\": \"e\"}"}

FailingTexts == {"<html>", "null", "7", "\"message\""}

ExpectedAuth(cls) ==
    IF cls.api_root = "a"
    THEN "Basic SzE6"
    ELSE IF access_token \in Tokens THEN "Bearer " \o access_token ELSE None

\* C2: the request of every mediator operation carries the Authorization
\* header of its resource's namespace: Basic base64(appSecret ":") and never
\* the bearer token in the admin namespace, Bearer accessToken (or none when
\* the token is unset) in the standard namespace.
C2_AuthByNamespace ==
    (req.op \in MediatorOps /\ (req.cls.api_root = "a" => app_secret # None))
        => Auth(req.headers) = ExpectedAuth(req.cls)

\* The URL the namespace rule of the specification gives a request context;
\* a trailing slash is not counted as a difference.
Part(x) == IF x = None \/ x = "" THEN <<>> ELSE <<x>>

ExpectedUrl(r) ==
    (IF r.cls.api_root = "a"
     THEN <<"https://api.nylas.com", "a", app_id, r.cls.collection_name>>
     ELSE <<"https://api.nylas.com", r.cls.collection_name>>)
        \o Part(r.id) \o Part(r.sub)

StripSlash(url) ==
    IF url # <<>> /\ url[Len(url)] = "" THEN SubSeq(url, 1, Len(url) - 1) ELSE url

\* C3: the URL of every mediator operation follows the namespace rule:
\* {base}/a/{appId}/{collection}[/{id}][/{subAction}] for an admin resource,
\* {base}/{collection}[/{id}][/{subAction}] for a standard one.
C3_UrlByNamespace ==
    req.op \in MediatorOps => StripSlash(req.url) = ExpectedUrl(req)

\* C4: a mediator operation whose transport fails with no response ends with
\* ConnectionFailure carrying the client's server URL, the transport's own
\* exception does not reach the caller, and exactly one request was attempted.
C4_ConnectionFailure ==
    (Finished /\ res.transport.failed) =>
        /\ res.result.outcome = "raised"
        /\ res.result.kind = "ConnectionError"
        /\ res.result.url = <<"https://api.nylas.com">>
        /\ attempts = 1

C4_Witness ==
    /\ Finished
    /\ res.op = "getOne"
    /\ res.transport.failed
    /\ res.result.kind = "ConnectionError"

\* C7: in every state the standard session's Authorization header is
\* "Bearer <t>" exactly when the current access token is a non-empty value t
\* and absent otherwise, and a request dispatched on the standard session
\* carries that header.
C7_HeaderFollowsToken ==
    /\ Auth(session_headers) =
          (IF access_token \in Tokens THEN "Bearer " \o access_token ELSE None)
    /\ (pc = "sent" /\ req.cls.api_root # "a") =>
          Auth(req.headers) =
              (IF access_token \in Tokens THEN "Bearer " \o access_token ELSE None)

C7_Witness ==
    /\ pc = "idle"
    /\ res.op = "tokenForCode"
    /\ res.result.outcome = "returned"
    /\ res.pre_token = "t1"
    /\ access_token = "t2"
    /\ Auth(session_headers) = "Bearer t2"

\* C10: revoke_token clears the access token and removes the Authorization
\* header of the standard session exactly when the revoke request was answered
\* with status 200; on any other status and on a transport failure it raises
\* the corresponding error and leaves token and header as they were.
C10_RevokeOnlyOn200 ==
    (pc = "idle" /\ res.op = "revoke") =>
        IF ~res.transport.failed /\ res.transport.status = 200
        THEN /\ res.result.outcome = "returned"
             /\ access_token = None
             /\ "Authorization" \notin DOMAIN session_headers
        ELSE /\ res.result.outcome = "raised"
             /\ res.result.kind =
                   (IF res.transport.failed THEN "ConnectionError"
                    ELSE ExpectedKind(res.transport.status))
             /\ access_token = res.pre_token
             /\ session_headers = res.pre_headers

C10_Witness ==
    /\ pc = "idle"
    /\ res.op = "revoke"
    /\ res.transport.status = 200
    /\ res.pre_token = "t1"
    /\ Auth(res.pre_headers) = "Bearer t1"
    /\ access_token = None
    /\ Auth(session_headers) = None

-----------------------------------------------------------------------------
(* The lazy paginated collection: PageSpec *)

\* The fixed page size of a collection traversal.
PageSize == 50

\* Bounds of the traversals explored.
MaxItems == 102

MaxOffset == 2

MaxRequests == 4

Min(a, b) == IF a < b THEN a ELSE b

\* The server's collection: n elements in server order, null at the
\* positions in nulls.
Collection(n, nulls) == [i \in 1..n |-> IF i \in nulls THEN NullElement ELSE Obj(i)]

NullChoices == {{}, {1}, {PageSize + 1}}

\* The filters a caller gives where(): none, the filters of the test suite,
\* and a filter named like a parameter of _get_resources.
FilterChoices ==
    { EmptyMap,
      [k \in {"in"} |-> Str("Nylas")],
      [k \in {"param1", "param2"} |-> IF k = "param1" THEN Str("a") ELSE Str("b")],
      [k \in {"extra"} |-> Str("x")] }

\* int(s) of a decimal numeral, as the server reads offset and limit.
ParseInt(s) ==
    CHOOSE n \in 0..(MaxItems + MaxOffset + PageSize * (MaxRequests + 1)) :
        ToString(n) = s

\* The server's answer to a list request: the elements from offset on, at
\* most limit of them.
ServePage(server, query) ==
    LET offset == IF "offset" \in DOMAIN query THEN ParseInt(query["offset"]) ELSE 0
        limit == IF "limit" \in DOMAIN query THEN ParseInt(query["limit"])
                 ELSE PageSize
    IN  SubSeq(server, offset + 1, Min(offset + limit, Len(server)))

\* RestfulModelCollection(cls, api, **filters): offset defaults to 0, the
\* caller's own offset is kept.
collection_filters(filters) ==
    IF "offset" \in DOMAIN filters THEN filters ELSE Put(filters, "offset", Num(0))

\* The keyword arguments of one page request: the filters with the cursor's
\* offset and the page size as limit.
page_kwargs(filters, offset) ==
    Put(Put(filters, "offset", Num(offset)), "limit", Num(PageSize))

\* A page is the last one when it holds fewer than PageSize items.
page_exhausted(items) == Len(items) < PageSize

Traversal(state, mode, given, filters, server, offset, acc, requests, lens, error) ==
    [pc |-> state, mode |-> mode, given |-> given, filters |-> filters,
     server |-> server,
     offset |-> offset, acc |-> acc, requests |-> requests, lens |-> lens,
     error |-> error]

PageInit ==
    /\ app_id = "app1"
    /\ app_secret = "K1"
    /\ access_token = "t1"
    /\ auth_token = None
    /\ session_headers = access_token_setter(access_token, WrapperHeaders)
    /\ admin_headers = admin_session_init(app_secret)
    /\ pc = "idle"
    /\ req = NoRequest
    /\ attempts = 0
    /\ res = NoResult
    /\ thr = ThrIdle
    /\ \E n \in 0..MaxItems, nulls \in NullChoices :
         page = Traversal("new", "", EmptyMap, EmptyMap, Collection(n, nulls), 0,
                          <<>>, <<>>, <<>>, Returned)

\* client.events.where(filters).all() or .items(): the traversal starts at the
\* offset filter.
where ==
    /\ page.pc = "new"
    /\ \E mode \in {"all", "items"}, choice \in FilterChoices,
          withOffset \in BOOLEAN, start \in 0..MaxOffset :
         LET given == IF withOffset THEN Put(choice, "offset", Num(start))
                      ELSE choice
             filters == collection_filters(given)
         IN  page' = [page EXCEPT !.pc = "fetch", !.mode = mode,
                                  !.given = given, !.filters = filters,
                                  !.offset = filters["offset"].int]
    /\ UNCHANGED <<clientVars, pc, req, attempts, res, thr>>

\* One pull: a list request for the page at the cursor, the server's answer,
\* validation, and the advance of the cursor.
pull ==
    /\ page.pc = "fetch"
    /\ Len(page.requests) < MaxRequests
    /\ \E answer \in {"page", "status 500", "no response"} :
         LET r == get_resources_request(Event, page_kwargs(page.filters, page.offset))
             t == CASE answer = "page" ->
                          Response(200, ArrayBody(ServePage(page.server, r.query)))
                    [] answer = "status 500" -> Response(500, Body("{}"))
                    [] OTHER -> TransportFailure
             result == nylas_excepted(operation_result(r, t))
             items == get_resources_results(t.body.items)
         IN  IF result.outcome = "raised"
             THEN page' = [page EXCEPT !.pc = "raised", !.error = result,
                                       !.requests = Append(@, r)]
             ELSE page' = [page EXCEPT
                              !.pc = IF page_exhausted(items) THEN "done" ELSE "fetch",
                              !.acc = @ \o items,
                              !.offset = @ + Len(items),
                              !.requests = Append(@, r),
                              !.lens = Append(@, Len(items))]
    /\ UNCHANGED <<clientVars, pc, req, attempts, res, thr>>

PageNext == where \/ pull

PageSpec == PageInit /\ [][PageNext]_vars /\ WF_vars(PageNext)

-----------------------------------------------------------------------------
(* Claims about the paginated collection (checked under PageSpec) *)

Last(seq) == seq[Len(seq)]

PageFinal == page.pc \in {"done", "raised"}

\* The offset the traversal starts at: the caller's offset filter, or 0.
StartOffset ==
    IF "offset" \in DOMAIN page.given THEN page.given["offset"].int ELSE 0

\* The guards of where and pull: the traversal can take its next step.
PageEnabled ==
    \/ page.pc = "new"
    \/ page.pc = "fetch" /\ Len(page.requests) < MaxRequests

C5_Requests ==
    /\ \A i \in 1..(Len(page.lens) - 1) : page.lens[i] = PageSize
    /\ page.pc = "done" =>
          /\ page.lens # <<>>
          /\ Last(page.lens) < PageSize
          /\ Len(page.requests) = Len(page.lens)
    /\ (page.pc = "fetch" /\ page.lens # <<>>) => Last(page.lens) = PageSize
    /\ Len(page.requests) <= (Len(page.server) \div PageSize) + 1
    /\ (/\ page.pc = "done"
        /\ Len(page.server) = 72
        /\ StartOffset = 0
        /\ \A i \in 1..72 : ~page.server[i].null)
       => /\ Len(page.requests) = 2
          /\ page.lens = <<50, 22>>
          /\ Len(page.acc) = 72
          /\ page.acc[1] = page.server[1]

\* C5: draining with all() or items() terminates for every finite server
\* collection: every page before the last one holds PageSize items, the
\* traversal is over right after the first page with fewer (no request follows
\* it), a page of PageSize items leaves the traversal fetching, and a first
\* page of 50 items and a second of 22 make two requests and 72 items, the
\* first item being the first of the first page. Termination is stated as:
\* the number of requests is bounded by the size of the collection (in
\* C5_Requests) and a traversal that is not over can always take its next step.
C5_Drain == C5_Requests /\ (PageFinal \/ PageEnabled)

C5_Witness ==
    /\ page.pc = "done"
    /\ Len(page.server) = 72
    /\ page.lens = <<50, 22>>
    /\ Len(page.requests) = 2
    /\ Len(page.acc) = 72

\* C6: the first list request of a drained where(filters) collection carries
\* every filter key the caller gave with its value, and an offset parameter:
\* the caller's own offset verbatim (0 as offset=0), or offset=0.
C6_FirstRequest ==
    page.requests # <<>> =>
        LET query == page.requests[1].query
        IN  /\ \A k \in DOMAIN page.given :
                  /\ k \in DOMAIN query
                  /\ query[k] = (IF page.given[k].isint
                                 THEN ToString(page.given[k].int)
                                 ELSE page.given[k].str)
            /\ "offset" \in DOMAIN query
            /\ "offset" \notin DOMAIN page.given => query["offset"] = "0"

\* The elements of seq that are not null, in order.
NonNull(seq) == SelectSeq(seq, LAMBDA x : ~x.null)

\* C9: the cursor offset is never negative and has advanced by the number of
\* items returned, and a finished all() returns exactly the non-null items
\* from the starting offset to the end of the collection, in server order,
\* each once.
C9_ExactDrain ==
    /\ page.pc # "new" =>
          /\ page.offset >= 0
          /\ page.offset = StartOffset + Len(page.acc)
    /\ (page.pc = "done" /\ page.mode = "all") =>
          page.acc = NonNull(SubSeq(page.server, StartOffset + 1, Len(page.server)))

-----------------------------------------------------------------------------
(* One client shared by threads: ThreadSpec. The client holds no lock, so   *)
(* the statements of the access_token setter, of token_for_code and of      *)
(* revoke_token interleave with the other threads' statements.              *)

NumThreads == 2

MaxThreadOps == 2

Threads == 1..NumThreads

\* A thread: its position, the value being assigned, the operations it has
\* finished, and whether one of them raised KeyError.
Thread(at, value, done, raised) ==
    [pc |-> at, value |-> value, done |-> done, raised |-> raised]

\* The positions of a rotation that has stored the new token and has not yet
\* brought the session's header in line with it.
RotationSteps == {"put", "check", "del"}

ThreadInit ==
    /\ app_id = "app1"
    /\ app_secret = "K1"
    /\ access_token = "t1"
    /\ auth_token = None
    /\ session_headers = access_token_setter(access_token, WrapperHeaders)
    /\ admin_headers = admin_session_init(app_secret)
    /\ pc = "idle"
    /\ req = NoRequest
    /\ attempts = 0
    /\ res = NoResult
    /\ page = PageIdle
    /\ thr = [t |-> [n \in Threads |-> Thread("idle", None, 0, FALSE)],
              dispatched |-> {}]

ThreadStep(n, at, value, done, raised) ==
    thr' = [thr EXCEPT !.t[n] = Thread(at, value, done, raised)]

Idle(n) == thr.t[n].pc = "idle" /\ thr.t[n].done < MaxThreadOps

\* A request on the standard session: requests reads session.headers when it
\* prepares the request.
thread_request(n) ==
    /\ Idle(n)
    /\ thr' = [thr EXCEPT
                 !.t[n] = Thread("idle", None, @.done + 1, @.raised),
                 !.dispatched = @ \cup {<<access_token, Auth(session_headers)>>}]
    /\ UNCHANGED <<clientVars, pc, req, attempts, res, page>>

\* client.access_token = value is called (the setter has not run a statement yet).
thread_assign(n) ==
    /\ Idle(n)
    /\ \E value \in {None, "t1", "t2"} :
         ThreadStep(n, "assign", value, thr.t[n].done, thr.t[n].raised)
    /\ UNCHANGED <<clientVars, pc, req, attempts, res, page>>

\* token_for_code: requests.post(self.access_token_url, ...)
thread_token_for_code(n) ==
    /\ Idle(n)
    /\ ThreadStep(n, "exchange", None, thr.t[n].done, thr.t[n].raised)
    /\ UNCHANGED <<clientVars, pc, req, attempts, res, page>>

\* token_for_code: self.access_token = resp[u'access_token']
thread_token_for_code_answer(n) ==
    /\ thr.t[n].pc = "exchange"
    /\ \E value \in {"t1", "t2"} :
         ThreadStep(n, "assign", value, thr.t[n].done, thr.t[n].raised)
    /\ UNCHANGED <<clientVars, pc, req, attempts, res, page>>

\* revoke_token: self.session.post(self.revoke_url)
thread_revoke_post(n) ==
    /\ Idle(n)
    /\ thr' = [thr EXCEPT
                 !.t[n] = Thread("post", None, @.done, @.raised),
                 !.dispatched = @ \cup {<<access_token, Auth(session_headers)>>}]
    /\ UNCHANGED <<clientVars, pc, req, attempts, res, page>>

\* revoke_token: _validate(resp); self.auth_token = None; then the setter.
thread_revoke_validate(n) ==
    /\ thr.t[n].pc = "post"
    /\ \E status \in {200, 401} :
         IF _validate(<<>>, status, Body("{}")).outcome = "returned"
         THEN /\ auth_token' = None
              /\ ThreadStep(n, "assign", None, thr.t[n].done, thr.t[n].raised)
         ELSE /\ UNCHANGED auth_token
              /\ ThreadStep(n, "idle", None, thr.t[n].done + 1, thr.t[n].raised)
    /\ UNCHANGED <<app_id, app_secret, access_token, session_headers, admin_headers,
                   pc, req, attempts, res, page>>

\* setter: self._access_token = value; if value:
setter_store(n) ==
    /\ thr.t[n].pc = "assign"
    /\ access_token' = thr.t[n].value
    /\ ThreadStep(n, IF Truthy(thr.t[n].value) THEN "put" ELSE "check",
                  thr.t[n].value, thr.t[n].done, thr.t[n].raised)
    /\ UNCHANGED <<app_id, app_secret, auth_token, session_headers, admin_headers,
                   pc, req, attempts, res, page>>

\* setter: self.session.headers['Authorization'] = 'Bearer ' + value
setter_put(n) ==
    /\ thr.t[n].pc = "put"
    /\ session_headers' = Put(session_headers, "Authorization", Bearer(thr.t[n].value))
    /\ ThreadStep(n, "idle", None, thr.t[n].done + 1, thr.t[n].raised)
    /\ UNCHANGED <<app_id, app_secret, access_token, auth_token, admin_headers,
                   pc, req, attempts, res, page>>

\* setter: if 'Authorization' in self.session.headers:
setter_check(n) ==
    /\ thr.t[n].pc = "check"
    /\ IF "Authorization" \in DOMAIN session_headers
       THEN ThreadStep(n, "del", None, thr.t[n].done, thr.t[n].raised)
       ELSE ThreadStep(n, "idle", None, thr.t[n].done + 1, thr.t[n].raised)
    /\ UNCHANGED <<clientVars, pc, req, attempts, res, page>>

\* setter: del self.session.headers['Authorization'] (KeyError when it is gone)
setter_del(n) ==
    /\ thr.t[n].pc = "del"
    /\ IF "Authorization" \in DOMAIN session_headers
       THEN /\ session_headers' = Del(session_headers, "Authorization")
            /\ ThreadStep(n, "idle", None, thr.t[n].done + 1, thr.t[n].raised)
       ELSE /\ UNCHANGED session_headers
            /\ ThreadStep(n, "idle", None, thr.t[n].done + 1, TRUE)
    /\ UNCHANGED <<app_id, app_secret, access_token, auth_token, admin_headers,
                   pc, req, attempts, res, page>>

ThreadNext ==
    \E n \in Threads :
        \/ thread_request(n)
        \/ thread_assign(n)
        \/ thread_token_for_code(n)
        \/ thread_token_for_code_answer(n)
        \/ thread_revoke_post(n)
        \/ thread_revoke_validate(n)
        \/ setter_store(n)
        \/ setter_put(n)
        \/ setter_check(n)
        \/ setter_del(n)

ThreadSpec == ThreadInit /\ [][ThreadNext]_vars

-----------------------------------------------------------------------------
(* Claims about the shared client (checked under ThreadSpec) *)

InRotation(n) == thr.t[n].pc \in RotationSteps

TokenAndHeaderAgree(token, auth) ==
    auth = (IF token \in Tokens THEN "Bearer " \o token ELSE None)

\* At most one token rotation is in flight at a time.
C8_OneRotation == Cardinality({n \in Threads : InRotation(n)}) <= 1

\* No request is dispatched while token and header disagree.
C8_NoTornRequest ==
    \A d \in thr.dispatched : TokenAndHeaderAgree(d[1], d[2])

\* Interleaved rotations raise no error and leave token and header agreeing.
C8_RotationsCompose ==
    /\ \A n \in Threads : ~thr.t[n].raised
    /\ (\A n \in Threads : ~InRotation(n)) =>
          TokenAndHeaderAgree(access_token, Auth(session_headers))

\* C8: with one client shared by threads, token rotation is synchronized with
\* concurrent requests: at most one rotation is in flight, no request is
\* dispatched while token and header disagree, and interleaved rotations
\* neither raise an error nor leave token and header disagreeing.
C8_Synchronized == C8_OneRotation /\ C8_NoTornRequest /\ C8_RotationsCompose

====
